---------------------------- MODULE Spec2Model ----------------------------
(***************************************************************************)
(* Model of foxholed's DetectionWorker (src/foxholed/detection_worker.py)  *)
(* together with the consumer (the Qt main thread of src/foxholed/main.py) *)
(* that starts and stops it, changes its interval, requests template       *)
(* captures and reloads the detector's template table.                     *)
(*                                                                         *)
(* Two threads share _running, _frame_requested, _interval_ms and the      *)
(* detector's _templates without any lock.  Every read or write of one of  *)
(* these fields is a separate step of the model, so that every             *)
(* interleaving the interpreter can produce is a behaviour of Spec.        *)
(*                                                                         *)
(* DetectSpec follows one call of PositionDetector.detect                  *)
(* (src/foxholed/detector.py) through its steps while the worker is idle.  *)
(***************************************************************************)
EXTENDS Integers, Sequences, FiniteSets, TLC

(***************************************************************************)
(* Bounds of the model.                                                    *)
(***************************************************************************)
\* the longest interval (ms) set_interval and the configuration are given
MaxIntervalMs == 300
\* frame_captured events waiting in the consumer's event queue
MaxQueued == 1
\* capture-template requests not yet matched by a frame_captured event
MaxPending == 2
\* ticks and slices counted after a stop request (the count saturates)
MaxCounted == 2

(***************************************************************************)
(* Program constants.                                                      *)
(***************************************************************************)
\* time.sleep(min(0.1, ...)): the longest slice, in milliseconds
SliceMs == 100

\* the intervals tried: none, one slice, a last slice cut short, whole slices
Intervals == {0, SliceMs, MaxIntervalMs - SliceMs \div 2, MaxIntervalMs}

\* REGION_BY_NAME: the registered region names (one of them)
REGION_BY_NAME == {"Deadlands"}
\* file stems a templates directory can hold: a registered name and a stray file
TemplateStems == REGION_BY_NAME \cup {"scratch"}

Min(a, b) == IF a < b THEN a ELSE b
Max(a, b) == IF a > b THEN a ELSE b

\* Python's None where the other values are tuples or records
None == <<>>

\* Config.crop_radius as config.py declares it
DefaultCropRadius == 200
\* Config.match_confidence_threshold as config.py declares it, in hundredths
DefaultThreshold == 70

VARIABLES
    _running,            \* DetectionWorker._running
    _frame_requested,    \* DetectionWorker._frame_requested
    _interval_ms,        \* DetectionWorker._interval_ms
    _templates,          \* PositionDetector._templates (its keys)
    minimap_region_set,  \* whether config.minimap_region exists
    disk,                \* stems of the *.png files in config.templates_dir
    pc,                  \* where the worker thread is in run()/_tick()
    elapsed,             \* run(): local elapsed
    sleep_arg,           \* the duration (ms) of the last time.sleep request
    frame,               \* _tick(): "none" or "image", what capture_screen returned
    saw_request,         \* _tick(): what line 84 read from _frame_requested
    iter_size,           \* _match_templates: len(_templates) when items() was taken
    visited,             \* _match_templates: the names the for loop has seen
    position,            \* _tick(): detect()'s result, "None" or a region name
    fault,               \* what raised in the current tick: "none", "crop", "iter"
    emitted,             \* the events the current tick has emitted, in order
    ui,                  \* the consumer thread: "idle", "stop_wait", "reloading"
    to_load,             \* _load_templates: the files the glob loop has yet to read
    queued,              \* frame_captured events queued for on_frame_captured
    life,                \* "Idle", "Running", "Stopping": start()/stop() calls
    restarted,           \* start() was called again after a completed stop()
    after_stop,          \* ticks and slices begun since stop() set the flag
    credit,              \* requests made minus frame_captured events emitted
    at,                  \* where a detect() call is: "idle" when none is modelled
    frame_shape,         \* detect(): None or <<width, height>> of the frame
    crop_radius,         \* config.crop_radius
    match_confidence_threshold,  \* config.match_confidence_threshold (1/100)
    contours,            \* find_player_triangle: what cv2.findContours returned
    marker_xy,           \* detect(): marker, find_player_triangle's result
    crop,                \* detect(): the crop's <<width, height>> and the
                         \* marker's coordinates in it, or None
    pairs,               \* _match_templates: (template, scale) pairs to come
    placement,           \* where the crop's content resembles the templates
    best_match,          \* _match_templates: best_score, best_name, best_loc,
                         \* best_template_shape
    searched,            \* every matchTemplate result of this search, in order
    result,              \* what detect() returned
    called,              \* the sub-steps detect() has invoked, in order
    _current_region,     \* RegionNotifier._current_region, "None" or a name
    updates,             \* the arguments of the update() calls so far
    last_update,         \* what the last update() call saw and did
    region_view,         \* RegionViewWidget: _current_region, _grid_x/y,
                         \* _smooth_x/y
    smoothings,          \* smoothing steps since the widget last snapped
    view_asked,          \* region_name of the last RegionViewWidget update
    map_widget,          \* MapWidget: _player (<<_player_col, _player_row>>
                         \* or None), _player_region, _position_trail
    popped,              \* whether the trail ever dropped an entry
    templates_dir,       \* config.templates_dir: whether it is a directory
                         \* and which of its *.png files cannot be decoded
    reloaded,            \* the directory as the last two loads found it and
                         \* template_count before the last load
    settings_file,       \* SETTINGS_FILE: whether it exists and what it holds
    cfg,                 \* the Config object handed to settings.py
    saved,               \* what the save_settings call that wrote the file
                         \* was given, None when no such call wrote it
    settings_call,       \* the last call into settings.py and its outcome
    war_api,             \* what the War API answers: whether the map list
                         \* request succeeds, the hex names it lists, and
                         \* each hex's dynamic data or request failure
    war_call             \* the last fetch_faction_control call's outcome
                         \* while the API still answers the same

vars == <<_running, _frame_requested, _interval_ms, _templates,
          minimap_region_set, disk, pc, elapsed, sleep_arg, frame, saw_request,
          iter_size, visited, position, fault, emitted, ui, to_load, queued,
          life, restarted, after_stop, credit, at, frame_shape, crop_radius,
          match_confidence_threshold, contours, marker_xy, crop, pairs,
          placement, best_match, searched, result, called,
          _current_region, updates, last_update, region_view, smoothings,
          view_asked, map_widget, popped, templates_dir, reloaded,
          settings_file, cfg, saved, settings_call, war_api, war_call>>

shared == <<_running, _frame_requested, _interval_ms, _templates>>
config == <<minimap_region_set, disk>>
tick   == <<frame, saw_request, iter_size, visited, position, fault, emitted>>
consumer == <<ui, to_load, life, restarted>>
search == <<pairs, placement, best_match, searched>>
detector == <<at, frame_shape, crop_radius, match_confidence_threshold,
              contours, marker_xy, crop, search, result, called>>

notifier == <<_current_region, updates, last_update>>
\* the state of the components around the worker and the detector
view == <<region_view, smoothings, view_asked>>
trail == <<map_widget, popped>>
store == <<templates_dir, reloaded>>
settings == <<settings_file, cfg, saved, settings_call>>
war == <<war_api, war_call>>
periphery == <<notifier, view, trail, store, settings, war>>

Ev(s, a) == [signal |-> s, arg |-> a]

\* the thread is not executing run(): never started, returned, or died
Dead == {"unstarted", "finished", "crashed"}

\* no detect() call is followed step by step: PositionDetector.__init__ ran
\* on the default configuration and no pipeline step has been taken
DetectorIdle ==
    /\ at = "idle"
    /\ frame_shape = None
    /\ crop_radius = DefaultCropRadius
    /\ match_confidence_threshold = DefaultThreshold
    /\ contours = <<>>
    /\ marker_xy = None
    /\ crop = None
    /\ pairs = <<>>
    /\ placement = "origin"
    /\ best_match = [score |-> 0, name |-> "", loc |-> <<0, 0>>,
                     shape |-> <<0, 0>>]
    /\ searched = <<>>
    /\ result = None
    /\ called = <<>>

\* RegionNotifier.__init__: no region yet, update() never called
NotifierIdle ==
    /\ _current_region = "None"
    /\ updates = <<>>
    /\ last_update = [old |-> "None", returned |-> "None", beeps |-> 0,
                      app |-> TRUE]

\* RegionViewWidget.__init__ (lines 22-28)
RegionViewIdle ==
    /\ region_view = [_current_region |-> "None", _grid_x |-> 0,
                      _grid_y |-> 0, _smooth_x |-> 0, _smooth_y |-> 0]
    /\ smoothings = 0
    /\ view_asked = "None"

\* MapWidget.__init__ (lines 32-34, 43)
MapWidgetIdle ==
    /\ map_widget = [_player |-> None, _player_region |-> "None",
                     _position_trail |-> <<>>]
    /\ popped = FALSE

\* the templates directory exists and every *.png file in it decodes; the
\* loads are followed from a directory without files (StoreSpec), where
\* PositionDetector.__init__ has loaded nothing (line 41)
StoreIdle ==
    /\ templates_dir = [is_dir |-> TRUE, undecodable |-> {}]
    /\ reloaded = [from |-> [is_dir |-> TRUE, files |-> {},
                             undecodable |-> {}],
                   before |-> [is_dir |-> TRUE, files |-> {},
                               undecodable |-> {}],
                   count_before |-> 0]

\* Config() as config.py declares it: no minimap_region attribute
FreshConfig == [window_title |-> "War", capture_interval_ms |-> 500,
                match_confidence_threshold |-> DefaultThreshold,
                minimap_region |-> None]

\* no settings file yet, a fresh Config, settings.py not called
SettingsIdle ==
    /\ settings_file = [state |-> "missing", text |-> None]
    /\ cfg = FreshConfig
    /\ saved = None
    /\ settings_call = [op |-> "none", before |-> FreshConfig,
                        returned |-> <<>>, raised |-> "none"]

\* the hex names of the model: two of _API_TO_REGION, one that it lacks
HexNames == {"DeadLandsHex", "OriginHex", "UnknownHex"}

\* the War API lists no hex and has no map items; no fetch was made
WarApiIdle ==
    /\ war_api = [maps_ok |-> TRUE, hex_names |-> <<>>,
                  dynamic |-> [h \in HexNames |->
                                  [ok |-> TRUE, mapItems |-> <<>>]]]
    /\ war_call = [done |-> FALSE, raised |-> "none", control |-> <<>>]

\* every component around the worker and the detector is as constructed
PeripheryIdle ==
    /\ NotifierIdle
    /\ RegionViewIdle
    /\ MapWidgetIdle
    /\ StoreIdle
    /\ SettingsIdle
    /\ WarApiIdle

(***************************************************************************)
(* Initial state: DetectionWorker.__init__ on a Config the caller built.   *)
(* PositionDetector.__init__ loads every file of the templates directory.  *)
(* Config (config.py) declares no minimap_region; settings.load_settings   *)
(* assigns one when the settings file has it, so both cases start a run.   *)
(***************************************************************************)
Init ==
    /\ _running = FALSE
    /\ _frame_requested = FALSE
    /\ _interval_ms \in Intervals
    /\ disk \in SUBSET TemplateStems
    /\ _templates = disk
    /\ minimap_region_set \in BOOLEAN
    /\ pc = "unstarted"
    /\ elapsed = 0
    /\ sleep_arg = 0
    /\ frame = "none"
    /\ saw_request = FALSE
    /\ iter_size = 0
    /\ visited = {}
    /\ position = "None"
    /\ fault = "none"
    /\ emitted = <<>>
    /\ ui = "idle"
    /\ to_load = {}
    /\ queued = 0
    /\ life = "Idle"
    /\ restarted = FALSE
    /\ after_stop = [ticks |-> 0, slices |-> 0]
    /\ credit = 0
    /\ DetectorIdle
    /\ PeripheryIdle

(***************************************************************************)
(* The worker thread: DetectionWorker.run and _tick.                       *)
(***************************************************************************)
\* counts a tick or a slice begun while stop() is waiting (saturating)
Bump(field) ==
    IF life = "Stopping"
    THEN [after_stop EXCEPT ![field] = Min(@ + 1, MaxCounted)]
    ELSE after_stop

\* run() that forgets line 53
RunStartKeepsFlag ==
    /\ pc = "run_start"
    /\ pc' = "loop"
    /\ UNCHANGED <<shared, config, detector, periphery, elapsed, sleep_arg, tick, consumer, queued,
                   after_stop, credit>>

\* line 53: self._running = True
RunStart ==
    /\ pc = "run_start"
    /\ _running' = TRUE
    /\ pc' = "loop"
    /\ UNCHANGED <<_frame_requested, _interval_ms, _templates, config, detector, periphery, elapsed,
                   sleep_arg, tick, consumer, queued, after_stop, credit>>

\* line 56: while self._running
LoopCheck ==
    /\ pc = "loop"
    /\ IF _running
       THEN /\ pc' = "capture"
            /\ frame' = "none"
            /\ saw_request' = FALSE
            /\ iter_size' = 0
            /\ visited' = {}
            /\ position' = "None"
            /\ fault' = "none"
            /\ emitted' = <<>>
            /\ after_stop' = Bump("ticks")
       ELSE /\ pc' = "finished"
            /\ UNCHANGED <<tick, after_stop>>
    /\ UNCHANGED <<shared, config, detector, periphery, elapsed, sleep_arg, consumer, queued, credit>>

\* lines 59-64: except Exception: emit "Detection error", then elapsed = 0
Raise(cause) ==
    /\ fault' = cause
    /\ emitted' = Append(emitted, Ev("status_changed", "Detection error"))
    /\ elapsed' = 0
    /\ pc' = "sleep_check"

\* _tick() without the return of line 79
TickNoWindowFallsThrough ==
    /\ pc = "capture"
    /\ frame' = "none"
    /\ emitted' = <<Ev("status_changed", "No window found"),
                    Ev("capture_status_changed", "no_window"),
                    Ev("position_detected", "None")>>
    /\ pc' = "check_request"
    /\ UNCHANGED <<shared, config, detector, periphery, elapsed, sleep_arg, saw_request, iter_size,
                   visited, position, fault, consumer, queued, after_stop, credit>>

\* lines 72-79: capture_screen() returned None
TickNoWindow ==
    /\ pc = "capture"
    /\ frame' = "none"
    /\ emitted' = <<Ev("status_changed", "No window found"),
                    Ev("capture_status_changed", "no_window"),
                    Ev("position_detected", "None")>>
    /\ elapsed' = 0
    /\ pc' = "sleep_check"
    /\ UNCHANGED <<shared, config, detector, periphery, sleep_arg, saw_request, iter_size, visited,
                   position, fault, consumer, queued, after_stop, credit>>

\* lines 72, 81: capture_screen() returned a frame; crop_minimap reads
\* config.minimap_region (capture.py line 120), an AttributeError without it
TickCrop ==
    /\ pc = "capture"
    /\ frame' = "image"
    /\ IF minimap_region_set
       THEN /\ pc' = "check_request"
            /\ UNCHANGED <<fault, emitted, elapsed>>
       ELSE Raise("crop")
    /\ UNCHANGED <<shared, config, detector, periphery, sleep_arg, saw_request, iter_size, visited,
                   position, consumer, queued, after_stop, credit>>

\* line 84: if self._frame_requested
CheckRequest ==
    /\ pc = "check_request"
    /\ saw_request' = _frame_requested
    /\ pc' = IF _frame_requested THEN "clear_request" ELSE "detect"
    /\ UNCHANGED <<shared, config, detector, periphery, elapsed, sleep_arg, frame, iter_size, visited,
                   position, fault, emitted, consumer, queued, after_stop, credit>>

\* _tick() without line 85
ClearRequestKeepsFlag ==
    /\ pc = "clear_request"
    /\ pc' = "emit_frame"
    /\ UNCHANGED <<shared, config, detector, periphery, elapsed, sleep_arg, tick, consumer, queued,
                   after_stop, credit>>

\* line 85: self._frame_requested = False
ClearRequest ==
    /\ pc = "clear_request"
    /\ _frame_requested' = FALSE
    /\ pc' = "emit_frame"
    /\ UNCHANGED <<_running, _interval_ms, _templates, config, detector, periphery, elapsed, sleep_arg,
                   tick, consumer, queued, after_stop, credit>>

\* line 86: self.frame_captured.emit(minimap.copy())
EmitFrame ==
    /\ pc = "emit_frame"
    /\ emitted' = Append(emitted, Ev("frame_captured", "minimap"))
    /\ queued' = Min(queued + 1, MaxQueued)
    /\ credit' = IF credit >= 0 THEN credit - 1 ELSE credit
    /\ pc' = "detect"
    /\ UNCHANGED <<shared, config, detector, periphery, elapsed, sleep_arg, frame, saw_request,
                   iter_size, visited, position, fault, consumer, after_stop>>

\* detector.py lines 76-84: an empty minimap or no marker gives None at once
DetectLocate ==
    /\ pc = "detect"
    /\ \E marker \in BOOLEAN :
         IF marker
         THEN /\ pc' = "match"
              /\ UNCHANGED position
         ELSE /\ pc' = "report"
              /\ position' = "None"
    /\ UNCHANGED <<shared, config, detector, periphery, elapsed, sleep_arg, frame, saw_request,
                   iter_size, visited, fault, emitted, consumer, queued,
                   after_stop, credit>>

\* detector.py lines 187-197: if not self._templates: return None; otherwise
\* the for loop takes an iterator over self._templates.items()
MatchBegin ==
    /\ pc = "match"
    /\ IF _templates = {}
       THEN /\ pc' = "report"
            /\ position' = "None"
            /\ UNCHANGED <<iter_size, visited>>
       ELSE /\ pc' = "match_iter"
            /\ iter_size' = Cardinality(_templates)
            /\ visited' = {}
            /\ UNCHANGED position
    /\ UNCHANGED <<shared, config, detector, periphery, elapsed, sleep_arg, frame, saw_request,
                   fault, emitted, consumer, queued, after_stop, credit>>

\* detector.py lines 227-244: the Position, or None below the threshold, when
\* nothing scored above 0, or when the best name is not in REGION_BY_NAME
MatchResult(best, above) ==
    IF above /\ best # "" /\ best \in REGION_BY_NAME THEN best ELSE "None"

\* detector.py lines 197-216: one step of the for loop over the dict.  The
\* dict iterator raises RuntimeError when the dict's size differs from the
\* size it had when the iterator was taken.
MatchNext ==
    /\ pc = "match_iter"
    /\ IF Cardinality(_templates) # iter_size
       THEN /\ Raise("iter")
            /\ UNCHANGED <<visited, position>>
       ELSE IF Cardinality(visited) >= iter_size \/ _templates \ visited = {}
       THEN /\ \E best \in visited \cup {""}, above \in BOOLEAN :
                 position' = MatchResult(best, above)
            /\ pc' = "report"
            /\ UNCHANGED <<visited, fault, emitted, elapsed>>
       ELSE /\ \E name \in _templates \ visited : visited' = visited \cup {name}
            /\ UNCHANGED <<pc, position, fault, emitted, elapsed>>
    /\ UNCHANGED <<shared, config, detector, periphery, sleep_arg, frame, saw_request, iter_size,
                   consumer, queued, after_stop, credit>>

\* _tick() that emits the capture status before the position
ReportStatusFirst ==
    /\ pc = "report"
    /\ emitted' = emitted \o
         (IF position = "None"
          THEN <<Ev("capture_status_changed", "no_match")>>
          ELSE <<Ev("capture_status_changed", "ok")>>) \o
         <<Ev("position_detected", position)>>
    /\ elapsed' = 0
    /\ pc' = "sleep_check"
    /\ UNCHANGED <<shared, config, detector, periphery, sleep_arg, frame, saw_request, iter_size,
                   visited, position, fault, consumer, queued, after_stop, credit>>

\* _tick() that reports "ok" whatever detect() returned
ReportAlwaysOk ==
    /\ pc = "report"
    /\ emitted' = emitted \o <<Ev("position_detected", position),
                                Ev("capture_status_changed", "ok")>>
    /\ elapsed' = 0
    /\ pc' = "sleep_check"
    /\ UNCHANGED <<shared, config, detector, periphery, sleep_arg, frame, saw_request, iter_size,
                   visited, position, fault, consumer, queued, after_stop, credit>>

\* lines 89-100: the events that follow detect(); line 93 reads template_count
Report ==
    /\ pc = "report"
    /\ emitted' = emitted \o <<Ev("position_detected", position)>> \o
         (IF position = "None"
          THEN <<Ev("capture_status_changed", "no_match"),
                 Ev("status_changed",
                    IF Cardinality(_templates) = 0
                    THEN "No templates loaded" ELSE "Position: detecting...")>>
          ELSE <<Ev("capture_status_changed", "ok")>>)
    /\ elapsed' = 0
    /\ pc' = "sleep_check"
    /\ UNCHANGED <<shared, config, detector, periphery, sleep_arg, frame, saw_request, iter_size,
                   visited, position, fault, consumer, queued, after_stop, credit>>

\* line 65: while self._running and elapsed < self._interval_ms
SleepCheck ==
    /\ pc = "sleep_check"
    /\ pc' = IF _running /\ elapsed < _interval_ms THEN "sleep_call" ELSE "loop"
    /\ UNCHANGED <<shared, config, detector, periphery, elapsed, sleep_arg, tick, consumer, queued,
                   after_stop, credit>>

\* every slice as long as the longest one
SleepWholeSlice == SliceMs

\* line 66: the argument of time.sleep, in ms; _interval_ms is read again
SleepDuration == Min(SliceMs, _interval_ms - elapsed)

\* lines 66-67: time.sleep raises ValueError for a negative length, outside
\* the try of line 57, so run() ends with the exception; else elapsed += 100
SleepCall ==
    /\ pc = "sleep_call"
    /\ sleep_arg' = SleepDuration
    /\ IF SleepDuration < 0
       THEN /\ pc' = "crashed"
            /\ UNCHANGED <<elapsed, after_stop>>
       ELSE /\ pc' = "sleep_check"
            /\ elapsed' = elapsed + SliceMs
            /\ after_stop' = Bump("slices")
    /\ UNCHANGED <<shared, config, detector, periphery, tick, consumer, queued, credit>>

Worker ==
    \/ RunStart
    \/ LoopCheck
    \/ TickNoWindow
    \/ TickCrop
    \/ CheckRequest
    \/ ClearRequest
    \/ EmitFrame
    \/ DetectLocate
    \/ MatchBegin
    \/ MatchNext
    \/ Report
    \/ SleepCheck
    \/ SleepCall

(***************************************************************************)
(* The consumer: the Qt main thread of main.py.  It calls start() and      *)
(* stop() in turn, as main() and on_shutdown do; while it is inside        *)
(* stop() or reload_templates() it does nothing else.                      *)
(***************************************************************************)
\* main.py line 144: worker.start(); QThread.start schedules run()
Start ==
    /\ ui = "idle"
    /\ life = "Idle"
    /\ pc \in Dead
    /\ pc' = "run_start"
    /\ life' = "Running"
    /\ restarted' = (pc = "finished")
    /\ after_stop' = [ticks |-> 0, slices |-> 0]
    /\ UNCHANGED <<shared, config, detector, periphery, elapsed, sleep_arg, tick, ui, to_load, queued,
                   credit>>

\* line 49: self._running = False
StopBegin ==
    /\ ui = "idle"
    /\ life = "Running"
    /\ _running' = FALSE
    /\ ui' = "stop_wait"
    /\ life' = "Stopping"
    /\ after_stop' = [ticks |-> 0, slices |-> 0]
    /\ UNCHANGED <<_frame_requested, _interval_ms, _templates, config, detector, periphery, pc,
                   elapsed, sleep_arg, tick, to_load, queued, restarted, credit>>

\* stop() that does not wait for the thread
WaitReturnsAtOnce == TRUE

\* line 50: QThread.wait() returns once run() has returned or ended
WaitReturns == pc \in Dead

StopReturn ==
    /\ ui = "stop_wait"
    /\ WaitReturns
    /\ ui' = "idle"
    /\ life' = "Idle"
    /\ UNCHANGED <<shared, config, detector, periphery, pc, elapsed, sleep_arg, tick, to_load, queued,
                   restarted, after_stop, credit>>

\* lines 39-41: set_interval(ms)
SetInterval ==
    /\ ui = "idle"
    /\ \E ms \in Intervals : _interval_ms' = ms
    /\ UNCHANGED <<_running, _frame_requested, _templates, config, detector, periphery, pc, elapsed,
                   sleep_arg, tick, consumer, queued, after_stop, credit>>

\* lines 43-45: request_frame_capture()
RequestFrameCapture ==
    /\ ui = "idle"
    /\ credit < MaxPending
    /\ _frame_requested' = TRUE
    /\ credit' = IF credit < 0 THEN credit ELSE credit + 1
    /\ UNCHANGED <<_running, _interval_ms, _templates, config, detector, periphery, pc, elapsed,
                   sleep_arg, tick, consumer, queued, after_stop>>

\* main.py lines 113-118, 122: on_frame_captured finds no marker in the frame,
\* or the dialog is cancelled
FrameDismissed ==
    /\ ui = "idle"
    /\ queued > 0
    /\ queued' = queued - 1
    /\ UNCHANGED <<shared, config, detector, periphery, pc, elapsed, sleep_arg, tick, consumer,
                   after_stop, credit>>

\* main.py lines 120-123 with template_dialog.py lines 81-96 and detector.py
\* line 45: the dialog saves <region>.png, then reload_templates() clears
\* the table
FrameSaved ==
    /\ ui = "idle"
    /\ queued > 0
    /\ queued' = queued - 1
    /\ \E region \in REGION_BY_NAME : disk' = disk \cup {region}
    /\ _templates' = {}
    /\ to_load' = disk'
    /\ ui' = "reloading"
    /\ UNCHANGED <<_running, _frame_requested, _interval_ms, minimap_region_set, detector, periphery,
                   pc, elapsed, sleep_arg, tick, life, restarted, after_stop,
                   credit>>

\* detector.py lines 55-59: one pass of the glob loop of _load_templates;
\* reload_templates() returns after the last file
LoadTemplate ==
    /\ ui = "reloading"
    /\ \E name \in to_load :
         /\ _templates' = _templates \cup {name}
         /\ to_load' = to_load \ {name}
    /\ ui' = IF to_load' = {} THEN "idle" ELSE "reloading"
    /\ UNCHANGED <<_running, _frame_requested, _interval_ms, config, detector, periphery, pc, elapsed,
                   sleep_arg, tick, queued, life, restarted, after_stop, credit>>

Consumer ==
    \/ Start
    \/ StopBegin
    \/ StopReturn
    \/ SetInterval
    \/ RequestFrameCapture
    \/ FrameDismissed
    \/ FrameSaved
    \/ LoadTemplate

Next == Worker \/ Consumer

Spec == Init /\ [][Next]_vars

\* The scheduler runs a live thread, and wait() returns once the thread ended.
FairSpec == Spec /\ WF_vars(Worker) /\ WF_vars(StopReturn)

\* The worker left alone: started once, never stopped, its interval never
\* changed; template captures are requested and dismissed meanwhile.
SteadyNext ==
    \/ Worker
    \/ Start
    \/ RequestFrameCapture
    \/ FrameDismissed

SteadySpec == Init /\ [][SteadyNext]_vars

(***************************************************************************)
(* PositionDetector.detect (src/foxholed/detector.py), followed step by    *)
(* step on a frame of which only the shape is kept.  What OpenCV computes  *)
(* from the pixels (the contours of the colour mask, the correlation score *)
(* and location of each template) is an input chosen from a small set.     *)
(* Scores and the threshold are in hundredths; grid offsets are fractions. *)
(***************************************************************************)
\* the most contours cv2.findContours returns
MaxContours == 2
\* Config.triangle_min_area and Config.triangle_max_area
triangle_min_area == 30
triangle_max_area == 2000

\* frame.shape as <<width, height>>: a zero-sized, a small and a large frame
FrameShapes == {<<0, 0>>, <<12, 9>>, <<24, 20>>}
\* config.crop_radius: a crop no template fits in, and one wider than the
\* small frame
Radii == {1, 8}
\* config.match_confidence_threshold
Thresholds == {DefaultThreshold, 90}
\* cv2.minMaxLoc's max_val: no correlation, and the two thresholds
Scores == {0} \cup Thresholds
\* the shape <<width, height>> of the image loaded for a template name; for
\* these sizes int(size * scale) is the floor of the exact product
TemplateShape(name) == IF name \in REGION_BY_NAME THEN <<8, 8>> ELSE <<16, 12>>
\* line 195: scales = [0.75, 0.85, 1.0, 1.15, 1.25], in percent
scales == <<75, 85, 100, 115, 125>>
\* where in the crop the best correlation of a template lies
Placements == {"origin", "marker", "corner"}

Frac(n, d) == [num |-> n, den |-> d]
\* a / b > c / d for positive denominators
Greater(x, y) == x.num * y.den > y.num * x.den
Range(seq) == {seq[i] : i \in 1..Len(seq)}

\* the centroids int(m10 / m00), int(m01 / m00) of a contour of the frame
Centroids(shape) ==
    {<<0, 0>>, <<shape[1] \div 2, shape[2] \div 2>>,
     <<shape[1] - 1, shape[2] - 1>>}

\* a contour as find_player_triangle measures it: cv2.contourArea (equal to
\* the moment m00), the area of its convex hull, and its centroid
Contours(shape) ==
    {[area |-> a, hull_area |-> (a * k) \div 2, centroid |-> c] :
        a \in {triangle_min_area - 1, triangle_min_area,
               triangle_max_area, triangle_max_area + 1},
        k \in {2, 4, 5},
        c \in Centroids(shape)}

ContourSeqs(shape) ==
    UNION {[1..n -> Contours(shape)] : n \in 0..MaxContours}

\* lines 126-147 with `solidity >= best_solidity`: the last of a tie wins
RECURSIVE ScanLastWins(_, _, _)
ScanLastWins(cs, best_candidate, best_solidity) ==
    IF cs = <<>> THEN best_candidate
    ELSE LET c == Head(cs)
             solidity == Frac(c.area, c.hull_area)
         IN IF c.area < triangle_min_area \/ c.area > triangle_max_area
            THEN ScanLastWins(Tail(cs), best_candidate, best_solidity)
            ELSE IF c.hull_area = 0
            THEN ScanLastWins(Tail(cs), best_candidate, best_solidity)
            ELSE IF /\ 5 * c.area > 2 * c.hull_area
                    /\ ~Greater(best_solidity, solidity)
                    /\ c.area > 0
            THEN ScanLastWins(Tail(cs), c.centroid, solidity)
            ELSE ScanLastWins(Tail(cs), best_candidate, best_solidity)

\* lines 126-147: the loop over the contours; solidity > 0.4 is
\* area / hull_area > 2 / 5, and M["m00"] is the contour's area
RECURSIVE Scan(_, _, _)
Scan(cs, best_candidate, best_solidity) ==
    IF cs = <<>> THEN best_candidate
    ELSE LET c == Head(cs)
             solidity == Frac(c.area, c.hull_area)
         IN IF c.area < triangle_min_area \/ c.area > triangle_max_area
            THEN Scan(Tail(cs), best_candidate, best_solidity)
            ELSE IF c.hull_area = 0
            THEN Scan(Tail(cs), best_candidate, best_solidity)
            ELSE IF /\ 5 * c.area > 2 * c.hull_area
                    /\ Greater(solidity, best_solidity)
                    /\ c.area > 0
            THEN Scan(Tail(cs), c.centroid, solidity)
            ELSE Scan(Tail(cs), best_candidate, best_solidity)

\* lines 125-149: best_candidate = None, best_solidity = 0.0, then the loop
find_player_triangle(cs) == Scan(cs, None, Frac(0, 1))

\* _crop_around without the clamping to the frame
CropUnclamped(shape, cx, cy, r) ==
    [x1 |-> cx - r, y1 |-> cy - r, x2 |-> cx + r, y2 |-> cy + r,
     marker_x |-> r, marker_y |-> r]

\* lines 163-170: the slice [y1:y2, x1:x2] and the marker relative to it
_crop_around(shape, cx, cy, r) ==
    LET x1 == Max(0, cx - r)
        y1 == Max(0, cy - r)
        x2 == Min(shape[1], cx + r)
        y2 == Min(shape[2], cy + r)
    IN [x1 |-> x1, y1 |-> y1, x2 |-> x2, y2 |-> y2,
        marker_x |-> cx - x1, marker_y |-> cy - y1]

\* lines 199-204: the template as loaded at scale 1.0, else resized to
\* max(1, int(size * scale)) in each axis
Scaled(size, scale) ==
    IF scale = 100 THEN size ELSE Max(1, (size * scale) \div 100)
ScaledShape(name, scale) ==
    <<Scaled(TemplateShape(name)[1], scale),
      Scaled(TemplateShape(name)[2], scale)>>

\* gray.shape of the crop as <<width, height>>
CropShape(c) == <<c.x2 - c.x1, c.y2 - c.y1>>

\* line 206: a scaled template taller or wider than the crop is skipped
Fits(shape, c) == shape[1] <= CropShape(c)[1] /\ shape[2] <= CropShape(c)[2]

\* the orders the dict _templates can iterate in (glob gives no order)
Orders(names) ==
    {o \in [1..Cardinality(names) -> names] : Range(o) = names}

\* lines 197-198: for name, template in items(): for scale in scales
Pairs(order) ==
    [i \in 1..(Len(order) * Len(scales)) |->
        [name |-> order[((i - 1) \div Len(scales)) + 1],
         scale |-> scales[((i - 1) % Len(scales)) + 1]]]

Clamp(v, lo, hi) == Max(lo, Min(v, hi))

\* lines 209-210: max_loc of cv2.minMaxLoc, a top-left corner at which the
\* scaled template lies inside the crop: the crop's origin, the far corner,
\* or the place that centres the template on the marker (marker minus half
\* the size, truncated), moved into the crop where it would leave it
MaxLoc(place, c, shape) ==
    LET room_x == CropShape(c)[1] - shape[1]
        room_y == CropShape(c)[2] - shape[2]
    IN CASE place = "origin" -> <<0, 0>>
         [] place = "corner" -> <<room_x, room_y>>
         [] place = "marker" ->
              <<Clamp((2 * c.marker_x - shape[1]) \div 2, 0, room_x),
                Clamp((2 * c.marker_y - shape[2]) \div 2, 0, room_y)>>

\* best_score = 0.0, best_name = "", best_loc = (0, 0), shape = (0, 0)
NoMatch == [score |-> 0, name |-> "", loc |-> <<0, 0>>, shape |-> <<0, 0>>]

\* the offset measured from the template's corner instead of its centre
GridOffsetFromCorner(marker_c, loc_c, size) ==
    Frac(2 * (marker_c - loc_c), 2 * size)

\* lines 229-234: (marker - (loc + size / 2)) / size, as an exact fraction
GridOffset(marker_c, loc_c, size) ==
    Frac(2 * (marker_c - loc_c) - size, 2 * size)

Position(b, marker_x, marker_y) ==
    [region_name |-> b.name,
     grid_x |-> GridOffset(marker_x, b.loc[1], b.shape[1]),
     grid_y |-> GridOffset(marker_y, b.loc[2], b.shape[2]),
     confidence |-> b.score,
     method |-> "template"]

\* lines 227-244 without the look-up of line 228
MatchDecisionAnyName(b, marker_x, marker_y, threshold) ==
    IF b.score >= threshold /\ b.name # ""
    THEN Position(b, marker_x, marker_y)
    ELSE None

\* lines 227-244 with `best_score > threshold`
MatchDecisionStrict(b, marker_x, marker_y, threshold) ==
    IF b.score > threshold /\ b.name # "" /\ b.name \in REGION_BY_NAME
    THEN Position(b, marker_x, marker_y)
    ELSE None

\* lines 227-244: the Position of the best match, or None
MatchDecision(b, marker_x, marker_y, threshold) ==
    IF b.score >= threshold /\ b.name # ""
    THEN IF b.name \in REGION_BY_NAME
         THEN Position(b, marker_x, marker_y)
         ELSE None
    ELSE None

scheduler == <<shared, config, tick, consumer, pc, elapsed, sleep_arg, queued,
               after_stop, credit>>

\* the worker is not running while detect() is followed step by step
SchedulerIdle ==
    /\ _running = FALSE
    /\ _frame_requested = FALSE
    /\ _interval_ms = SliceMs
    /\ disk = _templates
    /\ minimap_region_set = TRUE
    /\ pc = "unstarted"
    /\ elapsed = 0
    /\ sleep_arg = 0
    /\ frame = "none"
    /\ saw_request = FALSE
    /\ iter_size = 0
    /\ visited = {}
    /\ position = "None"
    /\ fault = "none"
    /\ emitted = <<>>
    /\ ui = "idle"
    /\ to_load = {}
    /\ queued = 0
    /\ life = "Idle"
    /\ restarted = FALSE
    /\ after_stop = [ticks |-> 0, slices |-> 0]
    /\ credit = 0

\* detect(frame) is called on a detector built from some templates directory
\* and configuration, with no frame, an empty frame or a frame
DetectInit ==
    /\ _templates \in SUBSET TemplateStems
    /\ SchedulerIdle
    /\ PeripheryIdle
    /\ at = "call"
    /\ frame_shape \in {None} \cup FrameShapes
    /\ crop_radius \in Radii
    /\ match_confidence_threshold \in Thresholds
    /\ contours = <<>>
    /\ marker_xy = None
    /\ crop = None
    /\ pairs = <<>>
    /\ placement = "origin"
    /\ best_match = NoMatch
    /\ searched = <<>>
    /\ result = None
    /\ called = <<>>

\* lines 76-78: if frame is None or frame.size == 0: return None
DetectCall ==
    /\ at = "call"
    /\ IF frame_shape = None \/ frame_shape[1] * frame_shape[2] = 0
       THEN at' = "returned"
       ELSE at' = "find"
    /\ result' = None
    /\ UNCHANGED <<scheduler, periphery, frame_shape, crop_radius,
                   match_confidence_threshold, contours, marker_xy, crop,
                   search, called>>

\* lines 81-84 where finding no marker raises instead of returning None
FindMarkerRaises ==
    /\ at = "find"
    /\ \E cs \in ContourSeqs(frame_shape) :
         /\ contours' = cs
         /\ marker_xy' = find_player_triangle(cs)
    /\ called' = Append(called, "find_player_triangle")
    /\ IF marker_xy' = None
       THEN at' = "returned" /\ result' = [raised |-> "LookupError"]
       ELSE at' = "crop" /\ UNCHANGED result
    /\ UNCHANGED <<scheduler, periphery, frame_shape, crop_radius,
                   match_confidence_threshold, crop, search>>

\* lines 81-84: marker = self.find_player_triangle(frame); None ends detect()
FindMarker ==
    /\ at = "find"
    /\ \E cs \in ContourSeqs(frame_shape) :
         /\ contours' = cs
         /\ marker_xy' = find_player_triangle(cs)
    /\ called' = Append(called, "find_player_triangle")
    /\ IF marker_xy' = None
       THEN at' = "returned" /\ result' = None
       ELSE at' = "crop" /\ UNCHANGED result
    /\ UNCHANGED <<scheduler, periphery, frame_shape, crop_radius,
                   match_confidence_threshold, crop, search>>

\* lines 86-90: crop around the marker; find_player_triangle's locals are gone
CropMarker ==
    /\ at = "crop"
    /\ crop' = _crop_around(frame_shape, marker_xy[1], marker_xy[2],
                            crop_radius)
    /\ contours' = <<>>
    /\ called' = Append(called, "_crop_around")
    /\ at' = "match"
    /\ UNCHANGED <<scheduler, periphery, frame_shape, crop_radius,
                   match_confidence_threshold, marker_xy, search, result>>

\* lines 93-94, 187-195: _match_templates is entered; no templates gives None
MatchEnter ==
    /\ at = "match"
    /\ called' = Append(called, "_match_templates")
    /\ IF _templates = {}
       THEN /\ at' = "returned"
            /\ result' = None
            /\ UNCHANGED search
       ELSE /\ at' = "search"
            /\ \E order \in Orders(_templates) : pairs' = Pairs(order)
            /\ placement' \in Placements
            /\ best_match' = NoMatch
            /\ searched' = <<>>
            /\ UNCHANGED result
    /\ UNCHANGED <<scheduler, periphery, frame_shape, crop_radius,
                   match_confidence_threshold, contours, marker_xy, crop>>

\* what cv2.matchTemplate and cv2.minMaxLoc give for the pair at the head
Found(score) ==
    LET shape == ScaledShape(Head(pairs).name, Head(pairs).scale)
    IN [name |-> Head(pairs).name, scale |-> Head(pairs).scale,
        score |-> score, loc |-> MaxLoc(placement, crop, shape),
        shape |-> shape]

\* the best match after this pair when `max_val >= best_score` replaces it
KeepLast(found) ==
    IF found.score >= best_match.score
    THEN [score |-> found.score, name |-> found.name, loc |-> found.loc,
          shape |-> found.shape]
    ELSE best_match

\* lines 212-216: if max_val > best_score: the pair becomes the best match
KeepBest(found) ==
    IF found.score > best_match.score
    THEN [score |-> found.score, name |-> found.name, loc |-> found.loc,
          shape |-> found.shape]
    ELSE best_match

\* lines 197-216: one (template, scale) pair of the search
MatchPair ==
    /\ at = "search"
    /\ pairs # <<>>
    /\ pairs' = Tail(pairs)
    /\ IF Fits(ScaledShape(Head(pairs).name, Head(pairs).scale), crop)
       THEN \E score \in Scores :
              /\ searched' = Append(searched, Found(score))
              /\ best_match' = KeepBest(Found(score))
       ELSE UNCHANGED <<searched, best_match>>
    /\ UNCHANGED <<scheduler, periphery, at, frame_shape, crop_radius,
                   match_confidence_threshold, contours, marker_xy, crop,
                   placement, result, called>>

\* lines 218-244, 94: the search is over and detect() returns its outcome
MatchReturn ==
    /\ at = "search"
    /\ pairs = <<>>
    /\ result' = MatchDecision(best_match, crop.marker_x, crop.marker_y,
                               match_confidence_threshold)
    /\ at' = "returned"
    /\ UNCHANGED <<scheduler, periphery, frame_shape, crop_radius,
                   match_confidence_threshold, contours, marker_xy, crop,
                   search, called>>

DetectNext ==
    \/ DetectCall
    \/ FindMarker
    \/ CropMarker
    \/ MatchEnter
    \/ MatchPair
    \/ MatchReturn

DetectSpec == DetectInit /\ [][DetectNext]_vars

(***************************************************************************)
(* Properties.                                                             *)
(***************************************************************************)
Signals(seq) == {seq[i].signal : i \in 1..Len(seq)}
Places(seq, sigs) == {i \in 1..Len(seq) : seq[i].signal \in sigs}
IsPrefix(a, b) == Len(a) <= Len(b) /\ SubSeq(b, 1, Len(a)) = a
NoWindowEvents == <<Ev("status_changed", "No window found"),
                    Ev("capture_status_changed", "no_window"),
                    Ev("position_detected", "None")>>
TickPcs == {"capture", "check_request", "clear_request", "emit_frame",
            "detect", "match", "match_iter", "report"}
FramePcs == TickPcs \ {"capture"}

\* C1: stop() returns only after run() has exited, and from the return of
\* stop() until the next start() the worker emits no event, wherever in
\* the loop the thread was when stop() was called.
C1_StopSynchronous ==
    /\ [](life = "Idle" => pc \in Dead)
    /\ [][life = "Idle" => emitted' = emitted]_vars

\* C1 witness: stop() has returned after a tick that emitted events
C1_Witness == life = "Idle" /\ pc = "finished" /\ emitted # <<>>

\* C2: a stop() called at any moment after start() eventually returns.
C2_StopReturns == (ui = "stop_wait") ~> (ui = "idle")

\* a fault in a tick is caught and reported as the tick's last event
FaultReported ==
    fault # "none" =>
        /\ emitted # <<>>
        /\ emitted[Len(emitted)] = Ev("status_changed", "Detection error")
        /\ pc \notin TickPcs

\* the thread has left run() although no stop() was requested
ExitedUnasked == pc \in {"finished", "crashed"} /\ life = "Running"

\* C3: a fault of _tick is caught, reported as status_changed("Detection
\* error") and followed by the sleep, and the loop thread exits only after
\* stop() has been requested.
C3_FaultsNeverTerminate == FaultReported /\ ~ExitedUnasked

\* C4: whatever the interleaving of set_interval with the sleep loop, every
\* sleep is requested with a duration between 0 and 100 ms and the loop keeps
\* running until stop() is requested.
C4_IntervalChangeSafe == sleep_arg \in 0..SliceMs /\ ~ExitedUnasked

\* C5: the template table is never mutated while detect() iterates over it,
\* a match never sees the table of a reload in progress, and no tick faults
\* because of a reload.
C5_NoReloadDuringMatch ==
    /\ ~(ui = "reloading" /\ pc = "match_iter")
    /\ fault # "iter"

C7_OneShotCapture ==
    /\ [](/\ Cardinality(Places(emitted, {"frame_captured"})) <= 1
          /\ "frame_captured" \in Signals(emitted) =>
                 frame = "image" /\ saw_request
          /\ credit >= 0)
    /\ [][_frame_requested /\ ~_frame_requested' =>
            pc = "clear_request" /\ pc' = "emit_frame" /\ frame = "image"]_vars

\* C7 witness: a tick has emitted the frame and a new request, made while
\* that tick was still running, is pending
C7_Witness ==
    /\ pc = "detect"
    /\ "frame_captured" \in Signals(emitted)
    /\ _frame_requested
    /\ credit = 1

\* C8: once stop() has been requested no new tick starts and the loop exits
\* after at most the slice in progress; no slice is longer than 100 ms.
C8_StopHonoured ==
    /\ sleep_arg <= SliceMs
    /\ life = "Stopping" => after_stop.ticks = 0 /\ after_stop.slices <= 1

\* C9 as stated: in every tick frame_captured comes before position_detected
\* and position_detected before the tick's capture_status_changed and
\* status_changed.
C9_PositionBeforeStatus ==
    \A i \in Places(emitted, {"position_detected"}) :
        /\ \A j \in Places(emitted, {"frame_captured"}) : j < i
        /\ \A j \in Places(emitted, {"capture_status_changed", "status_changed"}) :
               i < j

\* C9 amended: a tick's events are appended one after the other to the same
\* tick's output; in a tick with a frame frame_captured comes before
\* position_detected and position_detected before capture_status_changed and
\* status_changed; in a tick without a frame the order is status_changed,
\* capture_status_changed("no_window"), position_detected(None).
C9_TickOrder ==
    /\ [](IF frame = "image" THEN C9_PositionBeforeStatus
          ELSE emitted \in {<<>>, NoWindowEvents})
    /\ [][emitted' # emitted =>
            \/ pc = "loop" /\ emitted' = <<>>
            \/ pc \in TickPcs /\ IsPrefix(emitted, emitted') /\ emitted # emitted']_vars

\* C9 witness: a tick with a frame has emitted frame_captured, the position
\* and both statuses
C9_Witness ==
    /\ frame = "image"
    /\ Len(emitted) = 4
    /\ emitted[1].signal = "frame_captured"
    /\ emitted[2].signal = "position_detected"

\* C10: a tick without a frame emits the no-window status, capture status
\* "no_window" and position_detected(None) and nothing else: no crop, no
\* detection, no frame_captured, and the request flag is left as it was.
C10_NoWindowTick ==
    /\ [](frame = "none" =>
            /\ pc \notin FramePcs
            /\ fault = "none"
            /\ emitted \in {<<>>, NoWindowEvents}
            /\ pc \in {"sleep_check", "sleep_call"} => emitted = NoWindowEvents)
    /\ [][pc = "capture" /\ frame' = "none" /\ pc' # pc =>
            /\ pc' = "sleep_check"
            /\ emitted' = NoWindowEvents
            /\ _frame_requested' = _frame_requested
            /\ queued' = queued
            /\ credit' = credit]_vars

\* C10 witness: a tick without a frame has ended and the request made
\* before it is still pending
C10_Witness ==
    /\ frame = "none"
    /\ pc = "sleep_check"
    /\ emitted = NoWindowEvents
    /\ _frame_requested

\* the capture statuses a sequence of events carries
CaptureStatuses(seq) ==
    {seq[i].arg : i \in Places(seq, {"capture_status_changed"})}

\* C11: a tick that obtained a frame and ended without a fault has emitted
\* exactly one position_detected event, carrying detect()'s result, and
\* exactly one capture status: "ok" when the position is not None,
\* "no_match" when it is None; "no_window" is only emitted by a tick
\* without a frame.
C11_FrameTickEvents ==
    /\ frame = "image" /\ fault = "none" /\ pc \notin TickPcs =>
          /\ Cardinality(Places(emitted, {"position_detected"})) = 1
          /\ \A i \in Places(emitted, {"position_detected"}) :
                emitted[i].arg = position
          /\ Cardinality(Places(emitted, {"capture_status_changed"})) = 1
          /\ CaptureStatuses(emitted) =
                {IF position = "None" THEN "no_match" ELSE "ok"}
    /\ "no_window" \in CaptureStatuses(emitted) => frame = "none"

\* C11 witness: a tick with a frame found no position and reported no_match
C11_Witness ==
    /\ frame = "image"
    /\ fault = "none"
    /\ pc = "sleep_check"
    /\ position = "None"
    /\ CaptureStatuses(emitted) = {"no_match"}

(***************************************************************************)
(* Properties of detect().                                                 *)
(***************************************************************************)
\* the highest score of a non-empty search
TopScore(seq) ==
    CHOOSE v \in {seq[i].score : i \in 1..Len(seq)} :
        \A i \in 1..Len(seq) : seq[i].score <= v
\* the first pair, in iteration order, that reached the highest score
Winner(seq) ==
    seq[CHOOSE i \in 1..Len(seq) :
            /\ seq[i].score = TopScore(seq)
            /\ \A j \in 1..(i - 1) : seq[j].score < TopScore(seq)]
\* _match_templates ran its search to the end and detect() returned
Searched == at = "returned" /\ searched # <<>>
\* detect() returned a Position
Located == at = "returned" /\ result # None

\* C12: a Position returned by detect() names a registered region; when the
\* best-scoring template is not registered the result is None, also when
\* its score reaches the threshold and a registered template reached the
\* threshold as well.
C12_RegisteredOnly ==
    /\ Located => result.region_name \in REGION_BY_NAME
    /\ Searched /\ Winner(searched).name \notin REGION_BY_NAME =>
          result = None

\* C12 witness: the unregistered template won above the threshold, the
\* registered one reached the threshold too, and detect() returned None
C12_Witness ==
    /\ Searched
    /\ Winner(searched).name \notin REGION_BY_NAME
    /\ TopScore(searched) >= match_confidence_threshold
    /\ \E i \in 1..Len(searched) :
          /\ searched[i].name \in REGION_BY_NAME
          /\ searched[i].score >= match_confidence_threshold
    /\ result = None

\* a fraction between -1/2 and 1/2, both included
InHalf(f) == -f.den <= 2 * f.num /\ 2 * f.num <= f.den

\* C13: the grid_x and grid_y of a Position returned by detect() lie within
\* [-0.5, 0.5], wherever the marker is in the crop and wherever the
\* template matched.
C13_GridInRange ==
    Located => InHalf(result.grid_x) /\ InHalf(result.grid_y)

\* detect() was given no frame or a frame without pixels
EmptyFrame == frame_shape = None \/ frame_shape[1] * frame_shape[2] = 0

\* C14: detect() runs locate marker, crop, template match, text fallback in
\* this order; the text fallback is invoked, once, exactly when a marker
\* was found and template matching returned None, and its result is what
\* detect() returns then.
C14_TextFallback ==
    at = "returned" =>
        /\ IsPrefix(called, <<"find_player_triangle", "_crop_around",
                              "_match_templates", "text_fallback">>)
        /\ "text_fallback" \in Range(called) <=>
              /\ marker_xy # None
              /\ (_templates = {} \/
                    MatchDecision(best_match, crop.marker_x, crop.marker_y,
                                  match_confidence_threshold) = None)

\* C15: detect() returns None, raising nothing, for an absent or zero-sized
\* frame and when no marker is located; in both cases nothing was cropped
\* and no template was matched.
C15_AbsenceIsNone ==
    /\ at = "returned" /\ EmptyFrame => result = None /\ called = <<>>
    /\ at = "returned" /\ ~EmptyFrame /\ marker_xy = None =>
          result = None /\ called = <<"find_player_triangle">>

\* C15 witness: the frame had contours, none of them a marker, and detect()
\* returned None after find_player_triangle alone
C15_Witness ==
    /\ at = "returned"
    /\ ~EmptyFrame
    /\ contours # <<>>
    /\ marker_xy = None
    /\ result = None
    /\ called = <<"find_player_triangle">>

\* detect() went as far as _match_templates and returned
Matched == at = "returned" /\ "_match_templates" \in Range(called)

\* C16: template matching returns None when no templates are loaded or the
\* best score is below the threshold, and a Position with method
\* "template" and the best score as confidence whenever the best score is
\* at or above the threshold and the winning name is registered.
C16_ThresholdInclusive ==
    /\ Matched /\ _templates = {} => result = None
    /\ Searched /\ TopScore(searched) < match_confidence_threshold =>
          result = None
    /\ /\ Searched
       /\ TopScore(searched) >= match_confidence_threshold
       /\ Winner(searched).name \in REGION_BY_NAME
       => /\ result # None
          /\ result.region_name = Winner(searched).name
          /\ result.confidence = TopScore(searched)
          /\ result.method = "template"

\* C16 witness: the best score equals the threshold and a Position with
\* that confidence was returned
C16_Witness ==
    /\ Searched
    /\ TopScore(searched) = match_confidence_threshold
    /\ result # None
    /\ result.confidence = match_confidence_threshold

\* the pairs of a template table that fit inside a crop
FittingPairs(names, c) ==
    {<<n, scales[k]>> : n \in names, k \in 1..Len(scales)} \cap
    {p \in names \X Range(scales) : Fits(ScaledShape(p[1], p[2]), c)}

\* the best match the code should hold after a search: nothing until a
\* positive score was seen, then the first pair with the highest score
BestOf(seq) ==
    IF seq = <<>> \/ TopScore(seq) <= 0
    THEN NoMatch
    ELSE [score |-> Winner(seq).score, name |-> Winner(seq).name,
          loc |-> Winner(seq).loc, shape |-> Winner(seq).shape]

\* the recorded pairs follow the table order, then the order of the scales:
\* a template's pairs are adjacent and their scales ascend
InIterationOrder(seq) ==
    \A i \in 1..(Len(seq) - 1) :
        IF seq[i].name = seq[i + 1].name
        THEN \E k \in 1..(Len(scales) - 1) :
               /\ seq[i].scale = scales[k]
               /\ seq[i + 1].scale \in {scales[m] : m \in (k + 1)..Len(scales)}
        ELSE \A j \in (i + 1)..Len(seq) : seq[j].name # seq[i].name

\* C17: the search visits the (template, scale) pairs with the scales in
\* the order 0.75, 0.85, 1.0, 1.15, 1.25, skipping the pairs whose scaled
\* template does not fit inside the crop; the winner is the highest score
\* among the visited pairs, the first in iteration order on a tie, and
\* its name, location and scaled size are the ones the result is built
\* from.
C17_FirstMaximumWins ==
    /\ at \in {"search", "returned"} =>
          /\ best_match = BestOf(searched)
          /\ InIterationOrder(searched)
          /\ \A i \in 1..Len(searched) :
                /\ searched[i].shape =
                      ScaledShape(searched[i].name, searched[i].scale)
                /\ Fits(searched[i].shape, crop)
    /\ Searched =>
          /\ {<<e.name, e.scale>> : e \in Range(searched)} =
                FittingPairs(_templates, crop)
          /\ Len(searched) = Cardinality(FittingPairs(_templates, crop))
    /\ Located =>
          /\ searched # <<>>
          /\ result = Position(BestOf(searched), crop.marker_x, crop.marker_y)

\* C17 witness: two pairs of different templates tie at the top, a pair was
\* skipped, and the Position returned is built from the first of the two
C17_Witness ==
    /\ Located
    /\ \E i, j \in 1..Len(searched) :
          /\ i < j
          /\ searched[i].score = TopScore(searched)
          /\ searched[j].score = TopScore(searched)
          /\ searched[i].name # searched[j].name
          /\ searched[i].loc # searched[j].loc
          /\ \A k \in 1..(i - 1) : searched[k].score < TopScore(searched)
          /\ result.region_name = searched[i].name
    /\ Len(searched) < Cardinality(_templates) * Len(scales)

Abs(n) == IF n < 0 THEN -n ELSE n

\* the match origin is the marker minus half the template size, truncated
Centred(marker_c, loc_c, size) ==
    2 * marker_c >= size /\ loc_c = (2 * marker_c - size) \div 2

\* C18: grid_x = (marker_x - (match_x + template_w / 2)) / template_w and
\* grid_y likewise with the heights, for the matched (scaled) template; a
\* template centred on the marker gives offsets within half a pixel over
\* the template size of 0.
C18_GridOffset ==
    Located =>
        LET w == best_match.shape[1]
            h == best_match.shape[2]
            gx == result.grid_x
            gy == result.grid_y
        IN /\ 2 * gx.num * w =
                gx.den * (2 * (crop.marker_x - best_match.loc[1]) - w)
           /\ 2 * gy.num * h =
                gy.den * (2 * (crop.marker_y - best_match.loc[2]) - h)
           /\ gx.den > 0 /\ gy.den > 0
           /\ Centred(crop.marker_x, best_match.loc[1], w) =>
                2 * w * Abs(gx.num) <= gx.den
           /\ Centred(crop.marker_y, best_match.loc[2], h) =>
                2 * h * Abs(gy.num) <= gy.den

\* C18 witness: a template of odd width and height centred on the marker;
\* both offsets are half a pixel away from 0
C18_Witness ==
    /\ Located
    /\ best_match.shape[1] % 2 = 1
    /\ Centred(crop.marker_x, best_match.loc[1], best_match.shape[1])
    /\ Centred(crop.marker_y, best_match.loc[2], best_match.shape[2])
    /\ result.grid_x.num # 0
    /\ result.grid_y.num # 0

\* C19: for a marker inside the frame and a radius of at least 1,
\* _crop_around returns the slice [max(0,cy-r):min(h,cy+r),
\* max(0,cx-r):min(w,cx+r)], which lies within the frame and is not empty;
\* the marker returned is (cx - x1, cy - y1) and lies inside the crop; a
\* marker at least r from every edge gives a 2r x 2r crop with the marker
\* at (r, r).
C19_CropAround ==
    crop # None =>
        LET w == frame_shape[1]
            h == frame_shape[2]
            cx == marker_xy[1]
            cy == marker_xy[2]
            r == crop_radius
        IN /\ crop.x1 = Max(0, cx - r) /\ crop.x2 = Min(w, cx + r)
           /\ crop.y1 = Max(0, cy - r) /\ crop.y2 = Min(h, cy + r)
           /\ 0 <= crop.x1 /\ crop.x1 < crop.x2 /\ crop.x2 <= w
           /\ 0 <= crop.y1 /\ crop.y1 < crop.y2 /\ crop.y2 <= h
           /\ crop.marker_x = cx - crop.x1 /\ crop.marker_y = cy - crop.y1
           /\ 0 <= crop.marker_x /\ crop.marker_x < CropShape(crop)[1]
           /\ 0 <= crop.marker_y /\ crop.marker_y < CropShape(crop)[2]
           /\ cx >= r /\ cx + r <= w /\ cy >= r /\ cy + r <= h =>
                /\ CropShape(crop) = <<2 * r, 2 * r>>
                /\ crop.marker_x = r /\ crop.marker_y = r

\* C19 witness: a crop cut short by the frame's far edges, the marker off
\* its centre
C19_Witness ==
    /\ crop # None
    /\ crop.x1 > 0
    /\ crop.x2 = frame_shape[1]
    /\ CropShape(crop)[1] < 2 * crop_radius
    /\ crop.marker_x = crop_radius

\* the contours inside the area band whose solidity exceeds 0.4
Survivors(cs) ==
    {i \in 1..Len(cs) :
        /\ cs[i].area >= triangle_min_area
        /\ cs[i].area <= triangle_max_area
        /\ 5 * cs[i].area > 2 * cs[i].hull_area}
\* i is no less solid than j
AsSolid(cs, i, j) ==
    cs[i].area * cs[j].hull_area >= cs[j].area * cs[i].hull_area
\* the first of the most solid survivors
MostSolid(cs) ==
    CHOOSE i \in Survivors(cs) :
        /\ \A j \in Survivors(cs) : AsSolid(cs, i, j)
        /\ \A j \in Survivors(cs) : j < i => ~AsSolid(cs, j, i)

\* C20: find_player_triangle returns the centroid of the most solid contour
\* among those with an area within [min_area, max_area] and a solidity
\* above 0.4, the first seen on a tie; contours outside the band do not
\* count whatever their solidity; None when no contour survives or there
\* is no contour at all.
C20_MostSolidMarker ==
    called = <<"find_player_triangle">> =>
        marker_xy = IF Survivors(contours) = {} THEN None
                    ELSE contours[MostSolid(contours)].centroid

\* C20 witness: two contours of equal solidity at different places, the
\* first one is the marker
C20_Witness ==
    /\ called = <<"find_player_triangle">>
    /\ Survivors(contours) = {1, 2}
    /\ AsSolid(contours, 1, 2) /\ AsSolid(contours, 2, 1)
    /\ contours[1].area # contours[2].area
    /\ contours[1].centroid # contours[2].centroid
    /\ marker_xy = contours[1].centroid

(***************************************************************************)
(* Properties of the sleep between two ticks.                              *)
(***************************************************************************)
\* the smallest number of whole slices that cover an interval
SlicesFor(interval) == IF interval <= 0 THEN 0
                       ELSE (interval + SliceMs - 1) \div SliceMs
\* the sum of the first n slice lengths min(100, interval - elapsed)
RECURSIVE SumOfSlices(_, _)
SumOfSlices(interval, n) ==
    IF n = 0 THEN 0
    ELSE SumOfSlices(interval, n - 1) +
         Min(SliceMs, interval - (n - 1) * SliceMs)

\* C29: with the interval unchanged at I ms and no stop request, the sleep
\* between two ticks is ceil(I / 100) slices, each of min(100, I - elapsed)
\* ms, which add up to I ms; for I <= 0 nothing is slept and the next tick
\* starts at once.
C29_SteadySleep ==
    /\ [][pc = "sleep_call" /\ pc' # pc =>
            /\ sleep_arg' = Min(SliceMs, _interval_ms - elapsed)
            /\ sleep_arg' > 0
            /\ elapsed' = elapsed + SliceMs
            /\ pc' = "sleep_check"]_vars
    /\ [][pc = "sleep_check" /\ pc' # pc =>
            pc' = IF elapsed < _interval_ms THEN "sleep_call" ELSE "loop"]_vars
    /\ [](pc = "loop" /\ emitted # <<>> =>
            /\ elapsed = SlicesFor(_interval_ms) * SliceMs
            /\ SumOfSlices(_interval_ms, elapsed \div SliceMs) = Max(_interval_ms, 0))

\* C29 witness: an interval that is no multiple of a slice has been slept,
\* the last slice cut short
C29_Witness ==
    /\ pc = "loop"
    /\ emitted # <<>>
    /\ _interval_ms % SliceMs # 0
    /\ sleep_arg = _interval_ms % SliceMs
    /\ elapsed > _interval_ms
(***************************************************************************)
(* The components around the worker and the detector.  Each is followed    *)
(* on its own, from the state in which everything is as constructed.       *)
(***************************************************************************)
Quiescent ==
    /\ _templates = {}
    /\ SchedulerIdle
    /\ DetectorIdle
    /\ PeripheryIdle

(***************************************************************************)
(* RegionNotifier (region_notifier.py)                                     *)
(***************************************************************************)
\* how many update() calls are followed
MaxUpdates == 4

\* region names a detection can report to the notifier
RegionNames == {"Deadlands", "Origin"}

ChangesOnAnyName(region_name, current) == region_name # "None"

\* line 24, negated: the update is not ignored
Changes(region_name, current) ==
    region_name # "None" /\ region_name # current

BeepsAlways(old, app) == IF app THEN 1 ELSE 0

\* lines 29-35: app.beep() calls of an update that changes the region; app
\* is whether QApplication.instance() returned an application
Beeps(old, app) == IF old # "None" /\ app THEN 1 ELSE 0

\* RegionNotifier.update(region_name)
update ==
    /\ Len(updates) < MaxUpdates
    /\ \E region_name \in RegionNames \cup {"None"}, app \in BOOLEAN :
         /\ updates' = Append(updates, region_name)
         /\ IF Changes(region_name, _current_region)
            THEN /\ _current_region' = region_name
                 /\ last_update' = [old |-> _current_region,
                                    returned |-> region_name,
                                    beeps |-> Beeps(_current_region, app),
                                    app |-> app]
            ELSE /\ UNCHANGED _current_region
                 /\ last_update' = [old |-> _current_region,
                                    returned |-> "None",
                                    beeps |-> 0,
                                    app |-> app]
    /\ UNCHANGED <<scheduler, detector, view, trail, store, settings, war>>

NotifierNext == update

NotifierSpec == Quiescent /\ [][NotifierNext]_vars

RECURSIVE LastNamed(_)
\* the last argument of the sequence that is not None, "None" without one
LastNamed(args) ==
    IF args = <<>> THEN "None"
    ELSE IF args[Len(args)] # "None" THEN args[Len(args)]
    ELSE LastNamed(SubSeq(args, 1, Len(args) - 1))

\* C22: update(r) returns r and makes r the current region exactly when r is
\* not None and differs from the current region; otherwise it returns None
\* and leaves the current region alone.  So the current region is always
\* the last argument that was not None, and once set it is never None again.
C22_UpdateContract ==
    /\ [][Len(updates') > Len(updates) =>
            LET r == updates'[Len(updates')] IN
            IF r # "None" /\ r # _current_region
            THEN last_update'.returned = r /\ _current_region' = r
            ELSE /\ last_update'.returned = "None"
                 /\ _current_region' = _current_region]_vars
    /\ [](_current_region = LastNamed(updates))
    /\ [][Len(updates') > Len(updates) /\ _current_region # "None" =>
            _current_region' # "None"]_vars

C22_Witness ==
    /\ Len(updates) = 3
    /\ updates[1] # "None"
    /\ updates[2] \notin {"None", updates[1]}
    /\ updates[3] = "None"
    /\ _current_region = updates[2]
    /\ last_update.returned = "None"

MaxSmoothings == 2

RECURSIVE Pow10(_)
Pow10(n) == IF n = 0 THEN 1 ELSE 10 * Pow10(n - 1)

Grain == Pow10(MaxSmoothings)

\* the grid offsets a detection reports, around the jitter threshold
ViewOffsets == {0 * Grain, 5 * Grain, 20 * Grain}

MovesOnBothAxes(dx, dy) == Abs(dx) > 5 * Grain /\ Abs(dy) > 5 * Grain

\* line 60: abs(dx) > 0.005 or abs(dy) > 0.005
Moves(dx, dy) == Abs(dx) > 5 * Grain \/ Abs(dy) > 5 * Grain

\* lines 57, 61-62: smooth += alpha * d with alpha = 0.3
Smoothed(smooth, d) == smooth + (3 * d) \div 10

\* RegionViewWidget.update_position(region_name, grid_x, grid_y)
RegionView_update_position ==
    \E region_name \in RegionNames \cup {"None"},
       grid_x \in ViewOffsets, grid_y \in ViewOffsets :
      LET dx == grid_x - region_view._smooth_x
          dy == grid_y - region_view._smooth_y
      IN
      /\ IF region_name = "None"
         THEN /\ region_view' =
                     [region_view EXCEPT !._current_region = "None"]
              /\ UNCHANGED smoothings
         ELSE IF region_name # region_view._current_region
         THEN /\ region_view' = [_current_region |-> region_name,
                                 _grid_x |-> grid_x, _grid_y |-> grid_y,
                                 _smooth_x |-> grid_x, _smooth_y |-> grid_y]
              /\ smoothings' = 0
         ELSE IF Moves(dx, dy)
         THEN /\ smoothings < MaxSmoothings
              /\ region_view' =
                     [_current_region |-> region_name,
                      _grid_x |-> grid_x, _grid_y |-> grid_y,
                      _smooth_x |-> Smoothed(region_view._smooth_x, dx),
                      _smooth_y |-> Smoothed(region_view._smooth_y, dy)]
              /\ smoothings' = smoothings + 1
         ELSE /\ region_view' = [region_view EXCEPT !._grid_x = grid_x,
                                                    !._grid_y = grid_y]
              /\ UNCHANGED smoothings
      /\ view_asked' = region_name
      /\ UNCHANGED <<scheduler, detector, notifier, trail, store, settings, war>>

RegionViewNext == RegionView_update_position

RegionViewSpec == Quiescent /\ [][RegionViewNext]_vars

\* C28: an update with no region clears the current region; one naming a
\* region other than the current one (the first after a clear included)
\* puts the smoothed position on the given offsets; one naming the current
\* region moves the smoothed position by three tenths of its distance to
\* the given offsets on both axes when either distance exceeds 0.005, and
\* leaves it where it is otherwise.
C28_SnapOrSmooth ==
    /\ [](region_view._current_region = view_asked)
    /\ [][LET v == region_view
              w == region_view'
              dx == w._grid_x - v._smooth_x
              dy == w._grid_y - v._smooth_y
          IN
          IF view_asked' = "None"
          THEN w._smooth_x = v._smooth_x /\ w._smooth_y = v._smooth_y
          ELSE IF view_asked' # v._current_region
          THEN w._smooth_x = w._grid_x /\ w._smooth_y = w._grid_y
          ELSE IF dx > 5 * Grain \/ dx < -5 * Grain \/
                  dy > 5 * Grain \/ dy < -5 * Grain
          THEN /\ 10 * (w._smooth_x - v._smooth_x) = 3 * dx
               /\ 10 * (w._smooth_y - v._smooth_y) = 3 * dy
          ELSE w._smooth_x = v._smooth_x /\ w._smooth_y = v._smooth_y]_vars

\* smoothed on both axes although only one was off by more than 0.005
C28_Witness ==
    /\ smoothings = MaxSmoothings
    /\ region_view._current_region # "None"
    /\ region_view._smooth_x # region_view._grid_x
    /\ region_view._grid_y = 5 * Grain
    /\ 100 * region_view._smooth_y = 51 * 5 * Grain


(***************************************************************************)
(* MapWidget.update_position (ui/map_widget.py).  Columns, rows and grid   *)
(* offsets are in hundredths of a hex.                                     *)
(***************************************************************************)
_max_trail_length == 50

\* map_data.REGIONS, two of its entries
REGIONS == <<[name |-> "Deadlands", col |-> 900, row |-> 200],
             [name |-> "Origin", col |-> 1000, row |-> 200]>>

\* region names an update can carry: a registered one and one that is not
TrailNames == {"Deadlands", "Atlantis"}

\* (grid_x, grid_y) of an update: absent or zero, and a point of the hex
TrailGrids == {<<0, 0>>, <<50, 25>>}

\* lines 73-74: the first entry of REGIONS with the name, None without one
Registered(region_name) ==
    LET hits == {i \in 1..Len(REGIONS) : REGIONS[i].name = region_name}
    IN IF hits = {} THEN None
       ELSE REGIONS[CHOOSE i \in hits : \A j \in hits : i <= j]

TrimmedNewest(entries) ==
    IF Len(entries) > _max_trail_length
    THEN SubSeq(entries, 1, Len(entries) - 1)
    ELSE entries

\* lines 85-86: pop(0) when the trail is longer than _max_trail_length
Trimmed(entries) ==
    IF Len(entries) > _max_trail_length THEN Tail(entries) ELSE entries

\* lines 80-86: the trail after the marker moved to at
Trailed(entries, at_) ==
    IF entries = <<>> \/ entries[Len(entries)] # at_
    THEN Trimmed(Append(entries, at_))
    ELSE entries

\* MapWidget.update_position(region_name, grid_x, grid_y)
MapWidget_update_position ==
    \E region_name \in TrailNames \cup {"None"}, grid \in TrailGrids :
      LET r == Registered(region_name)
          to == <<r.col + grid[1], r.row + grid[2]>>
      IN
      /\ IF region_name = "None"
         THEN /\ map_widget' = [map_widget EXCEPT !._player_region = "None",
                                                  !._player = None]
              /\ UNCHANGED popped
         ELSE IF r = None
         THEN /\ map_widget' =
                     [map_widget EXCEPT !._player_region = region_name]
              /\ UNCHANGED popped
         ELSE /\ map_widget' =
                     [_player_region |-> region_name,
                      _player |-> to,
                      _position_trail |->
                          Trailed(map_widget._position_trail, to)]
              /\ popped' =
                     (popped \/
                      /\ Len(map_widget._position_trail) = _max_trail_length
                      /\ map_widget'._position_trail #
                             map_widget._position_trail)
      /\ UNCHANGED <<scheduler, detector, notifier, view, store, settings, war>>

MapWidgetNext == MapWidget_update_position

MapWidgetSpec == Quiescent /\ [][MapWidgetNext]_vars

Last(entries) == entries[Len(entries)]
IsRegistered(region_name) ==
    \E i \in 1..Len(REGIONS) : REGIONS[i].name = region_name

\* C30: the trail never holds more than 50 entries and never two equal
\* entries in a row; when it is full the oldest entry makes room for the
\* new one; after an update naming a registered region its last entry is
\* the marker's (col, row); an update with no region clears the marker and
\* leaves the trail; an update naming an unregistered region changes
\* neither the marker's coordinates nor the trail.
C30_Trail ==
    /\ [](Len(map_widget._position_trail) <= 50)
    /\ [](\A i \in 1..(Len(map_widget._position_trail) - 1) :
              map_widget._position_trail[i] #
                  map_widget._position_trail[i + 1])
    /\ [](IsRegistered(map_widget._player_region) =>
              /\ map_widget._position_trail # <<>>
              /\ Last(map_widget._position_trail) = map_widget._player)
    /\ [][map_widget'._position_trail # map_widget._position_trail =>
              /\ IsRegistered(map_widget'._player_region)
              /\ map_widget'._position_trail =
                     IF Len(map_widget._position_trail) = 50
                     THEN Append(Tail(map_widget._position_trail),
                                 map_widget'._player)
                     ELSE Append(map_widget._position_trail,
                                 map_widget'._player)]_vars
    /\ [][map_widget'._player_region = "None" =>
              /\ map_widget'._player = None
              /\ map_widget'._position_trail = map_widget._position_trail]_vars
    /\ [][/\ map_widget'._player_region # "None"
          /\ ~IsRegistered(map_widget'._player_region)
          => /\ map_widget'._player = map_widget._player
             /\ map_widget'._position_trail =
                    map_widget._position_trail]_vars

\* a full trail that has dropped entries, the marker cleared afterwards
C30_Witness ==
    /\ popped
    /\ Len(map_widget._position_trail) = 50
    /\ map_widget._player_region = "None"
    /\ map_widget._player = None


(***************************************************************************)
(* PositionDetector.reload_templates and the templates directory           *)
(* (detector.py lines 43-62), followed while no tick is running.           *)
(***************************************************************************)
\* the worker's state apart from the template table and the directory
besides_templates == <<_running, _frame_requested, _interval_ms,
                       minimap_region_set, tick, consumer, pc, elapsed,
                       sleep_arg, queued, after_stop, credit>>

\* what _load_templates finds at config.templates_dir
Directory == [is_dir |-> templates_dir.is_dir, files |-> disk,
              undecodable |-> templates_dir.undecodable]

Globbed(dir) == IF dir.is_dir THEN dir.files ELSE {}

\* lines 52-59: the stems of the *.png files cv2.imread decodes, none when
\* the path is not a directory
Decodable(dir) == IF dir.is_dir THEN dir.files \ dir.undecodable ELSE {}

\* a *.png file appears in the directory, an image or not
AddFile ==
    /\ templates_dir.is_dir
    /\ \E name \in TemplateStems \ disk, decodes \in BOOLEAN :
         /\ disk' = disk \cup {name}
         /\ templates_dir' =
                [templates_dir EXCEPT !.undecodable =
                     IF decodes THEN @ ELSE @ \cup {name}]
    /\ UNCHANGED <<_templates, reloaded, besides_templates, detector,
                   notifier, view, trail, settings, war>>

\* a *.png file is deleted
RemoveFile ==
    /\ \E name \in disk :
         /\ disk' = disk \ {name}
         /\ templates_dir' =
                [templates_dir EXCEPT !.undecodable = @ \ {name}]
    /\ UNCHANGED <<_templates, reloaded, besides_templates, detector,
                   notifier, view, trail, settings, war>>

\* the directory is deleted with what it holds
RemoveDirectory ==
    /\ templates_dir.is_dir
    /\ disk' = {}
    /\ templates_dir' = [is_dir |-> FALSE, undecodable |-> {}]
    /\ UNCHANGED <<_templates, reloaded, besides_templates, detector,
                   notifier, view, trail, settings, war>>

\* the directory is created, empty
MakeDirectory ==
    /\ ~templates_dir.is_dir
    /\ templates_dir' = [is_dir |-> TRUE, undecodable |-> {}]
    /\ UNCHANGED <<_templates, disk, reloaded, besides_templates, detector,
                   notifier, view, trail, settings, war>>

\* PositionDetector.reload_templates(): clear(), then _load_templates()
reload_templates ==
    /\ _templates' = {} \cup Decodable(Directory)
    /\ reloaded' = [from |-> Directory, before |-> reloaded.from,
                    count_before |-> Cardinality(_templates)]
    /\ UNCHANGED <<disk, templates_dir, besides_templates, detector,
                   notifier, view, trail, settings, war>>

StoreNext ==
    \/ AddFile
    \/ RemoveFile
    \/ RemoveDirectory
    \/ MakeDirectory
    \/ reload_templates

StoreSpec == Quiescent /\ [][StoreNext]_vars

\* the files of a directory that are images, as the claim counts them
Images(dir) == {f \in dir.files : dir.is_dir /\ f \notin dir.undecodable}

\* C21: after a load the table holds exactly the decodable *.png files the
\* directory had, by stem.  So a reload of an unchanged directory leaves
\* template_count as it was, a reload after one image was added raises it
\* by one, and a reload after one was removed lowers it by one; files that
\* do not decode and a missing directory add nothing.
C21_ReloadIsDirectory ==
    /\ _templates = Images(reloaded.from)
    /\ reloaded.count_before = Cardinality(Images(reloaded.before))
    /\ reloaded.from = reloaded.before =>
           Cardinality(_templates) = reloaded.count_before
    /\ \A f \in TemplateStems :
           /\ f \in Images(reloaded.from) \ Images(reloaded.before)
           /\ Images(reloaded.from) \ {f} = Images(reloaded.before)
           => Cardinality(_templates) = reloaded.count_before + 1
    /\ \A f \in TemplateStems :
           /\ f \in Images(reloaded.before) \ Images(reloaded.from)
           /\ Images(reloaded.before) \ {f} = Images(reloaded.from)
           => Cardinality(_templates) = reloaded.count_before - 1
    /\ ~reloaded.from.is_dir => _templates = {}
    /\ _templates \cap reloaded.from.undecodable = {}

\* an image was added next to a file that does not decode, then reloaded
C21_Witness ==
    /\ reloaded.from.undecodable # {}
    /\ reloaded.before.undecodable = reloaded.from.undecodable
    /\ Cardinality(reloaded.from.files) = 2
    /\ Cardinality(reloaded.before.files) = 1
    /\ Cardinality(_templates) = 1
    /\ reloaded.count_before = 0


(***************************************************************************)
(* settings.py: load_settings, save_settings, reset_settings.  A JSON      *)
(* text is a tree of tagged values; numbers with a fraction are in         *)
(* hundredths.                                                             *)
(***************************************************************************)
JNumber(n) == [json |-> "number", lit |-> n]
JString(str) == [json |-> "string", lit |-> str]
JBool(b) == [json |-> IF b THEN "true" ELSE "false"]
JObject(m) == [json |-> "object", members |-> m]

\* json.dumps of a dict of numbers
DumpNumbers(d) == JObject([k \in DOMAIN d |-> JNumber(d[k])])

\* line 81: json.dumps(data) for the dict save_settings builds
dumps(data) ==
    JObject([k \in DOMAIN data |->
        CASE k = "window_title" -> JString(data[k])
          [] k = "always_on_top" -> JBool(data[k])
          [] k \in {"capture_interval_ms", "match_confidence_threshold"} ->
                 JNumber(data[k])
          [] OTHER -> DumpNumbers(data[k])])

RECURSIVE loads(_)
\* line 29: json.loads of a JSON text
loads(text) ==
    CASE text.json \in {"number", "string"} -> text.lit
      [] text.json = "true" -> TRUE
      [] text.json = "false" -> FALSE
      [] text.json = "object" ->
             [k \in DOMAIN text.members |-> loads(text.members[k])]

\* dict.get(key, default)
Get(d, key, default) == IF key \in DOMAIN d THEN d[key] ELSE default

\* config.MinimapRegion(x, y, width, height), as settings.py builds and
\* reads it
MinimapRegion(x, y, width, height) ==
    [x |-> x, y |-> y, width |-> width, height |-> height]

\* the Config objects load and save are handed
Configs ==
    [window_title : {"War", "TestWindow"},
     capture_interval_ms : {500, 2000},
     match_confidence_threshold : {DefaultThreshold, 80},
     minimap_region : {None, MinimapRegion(10, 20, 400, 400)}]

\* window.get_geometry_dict() and map_widget.get_view_state(), or None
Geometries == {None, [x |-> 100, y |-> 200, width |-> 800, height |-> 600]}
MapViews == {None, [zoom |-> 200, pan_x |-> 5000, pan_y |-> 6000]}

\* settings files written by something other than save_settings: bytes
\* that are no text, text that is no JSON, a file that cannot be read, an
\* empty object, an object whose minimap_region has no members
ForeignFiles ==
    {[state |-> "bytes", text |-> None],
     [state |-> "garbled", text |-> None],
     [state |-> "unreadable", text |-> None],
     [state |-> "json", text |-> JObject(<<>>)],
     [state |-> "json",
      text |-> JObject([minimap_region |-> JObject(<<>>)])]}

SettingsDataNoOptions(c, window_geometry, map_view, always_on_top) ==
    [window_title |-> c.window_title,
     capture_interval_ms |-> c.capture_interval_ms,
     match_confidence_threshold |-> c.match_confidence_threshold,
     minimap_region |-> [x |-> c.minimap_region.x,
                         y |-> c.minimap_region.y,
                         width |-> c.minimap_region.width,
                         height |-> c.minimap_region.height],
     always_on_top |-> always_on_top]

\* lines 61-77: the dict save_settings writes
SettingsData(c, window_geometry, map_view, always_on_top) ==
    [window_title |-> c.window_title,
     capture_interval_ms |-> c.capture_interval_ms,
     match_confidence_threshold |-> c.match_confidence_threshold,
     minimap_region |-> [x |-> c.minimap_region.x,
                         y |-> c.minimap_region.y,
                         width |-> c.minimap_region.width,
                         height |-> c.minimap_region.height],
     always_on_top |-> always_on_top]
    @@ (IF window_geometry # None
        THEN "window_geometry" :> window_geometry ELSE <<>>)
    @@ (IF map_view # None THEN "map_view" :> map_view ELSE <<>>)

\* lines 34-47: the Config after load_settings read data
Applied(c, data) ==
    [window_title |-> Get(data, "window_title", c.window_title),
     capture_interval_ms |->
         Get(data, "capture_interval_ms", c.capture_interval_ms),
     match_confidence_threshold |->
         Get(data, "match_confidence_threshold",
             c.match_confidence_threshold),
     minimap_region |->
         IF "minimap_region" \in DOMAIN data
         THEN MinimapRegion(Get(data.minimap_region, "x", 0),
                            Get(data.minimap_region, "y", 0),
                            Get(data.minimap_region, "width", 300),
                            Get(data.minimap_region, "height", 300))
         ELSE c.minimap_region]

Called(op, returned, raised) ==
    [op |-> op, before |-> cfg, returned |-> returned, raised |-> raised]

\* the caller assigns the Config's fields (or builds a new Config)
Configure ==
    /\ \E c \in Configs : cfg' = c
    /\ settings_call' = [op |-> "configure", before |-> cfg',
                         returned |-> <<>>, raised |-> "none"]
    /\ UNCHANGED <<settings_file, saved>>
    /\ UNCHANGED <<scheduler, detector, notifier, view, trail, store, war>>

\* something other than save_settings writes the settings file
ForeignWrite ==
    /\ settings_file' \in ForeignFiles
    /\ saved' = None
    /\ settings_call' = [op |-> "write", before |-> cfg,
                         returned |-> <<>>, raised |-> "none"]
    /\ UNCHANGED cfg
    /\ UNCHANGED <<scheduler, detector, notifier, view, trail, store, war>>

\* load_settings(config)
load_settings ==
    /\ IF settings_file.state = "missing"
       THEN cfg' = cfg /\ settings_call' = Called("load", <<>>, "none")
       ELSE IF settings_file.state = "bytes"
       THEN /\ cfg' = cfg
            /\ settings_call' = Called("load", <<>>, "UnicodeDecodeError")
       ELSE IF settings_file.state \in {"garbled", "unreadable"}
       THEN cfg' = cfg /\ settings_call' = Called("load", <<>>, "none")
       ELSE LET data == loads(settings_file.text) IN
            /\ cfg' = Applied(cfg, data)
            /\ settings_call' = Called("load", data, "none")
    /\ UNCHANGED <<settings_file, saved>>
    /\ UNCHANGED <<scheduler, detector, notifier, view, trail, store, war>>

\* save_settings(config, window_geometry=, map_view=, always_on_top=);
\* written is whether mkdir and write_text succeeded
save_settings ==
    /\ \E window_geometry \in Geometries, map_view \in MapViews,
          always_on_top \in BOOLEAN, written \in BOOLEAN :
         IF cfg.minimap_region = None
         THEN /\ settings_call' = Called("save", <<>>, "AttributeError")
              /\ UNCHANGED <<settings_file, saved>>
         ELSE /\ settings_call' = Called("save", <<>>, "none")
              /\ IF written
                 THEN /\ settings_file' =
                            [state |-> "json",
                             text |-> dumps(SettingsData(cfg,
                                 window_geometry, map_view, always_on_top))]
                      /\ saved' = [config |-> cfg,
                                   window_geometry |-> window_geometry,
                                   map_view |-> map_view,
                                   always_on_top |-> always_on_top]
                 ELSE \/ UNCHANGED <<settings_file, saved>>
                      \/ /\ settings_file' =
                                [state |-> "garbled", text |-> None]
                         /\ saved' = None
    /\ UNCHANGED cfg
    /\ UNCHANGED <<scheduler, detector, notifier, view, trail, store, war>>

\* reset_settings(); unlinked is whether unlink succeeded
reset_settings ==
    /\ \E unlinked \in BOOLEAN :
         IF unlinked \/ settings_file.state = "missing"
         THEN /\ settings_file' = [state |-> "missing", text |-> None]
              /\ saved' = None
              /\ settings_call' = Called("reset", <<>>, "none")
         ELSE /\ UNCHANGED <<settings_file, saved>>
              /\ settings_call' = Called("reset failed", <<>>, "none")
    /\ UNCHANGED cfg
    /\ UNCHANGED <<scheduler, detector, notifier, view, trail, store, war>>

SettingsNext ==
    \/ Configure
    \/ ForeignWrite
    \/ load_settings
    \/ save_settings
    \/ reset_settings

SettingsSpec == Quiescent /\ [][SettingsNext]_vars

\* C24: a load_settings that follows a save_settings which wrote the file
\* leaves the Config with the saved window_title, capture_interval_ms,
\* match_confidence_threshold and minimap_region, whatever it held before,
\* and returns a dict with the saved always_on_top and with the saved
\* window_geometry and map_view, each present exactly when it was given.
C24_RoundTrip ==
    settings_call.op = "load" /\ saved # None =>
        /\ settings_call.raised = "none"
        /\ cfg.window_title = saved.config.window_title
        /\ cfg.capture_interval_ms = saved.config.capture_interval_ms
        /\ cfg.match_confidence_threshold =
               saved.config.match_confidence_threshold
        /\ cfg.minimap_region = saved.config.minimap_region
        /\ settings_call.returned.always_on_top = saved.always_on_top
        /\ IF saved.window_geometry = None
           THEN "window_geometry" \notin DOMAIN settings_call.returned
           ELSE /\ "window_geometry" \in DOMAIN settings_call.returned
                /\ settings_call.returned.window_geometry =
                       saved.window_geometry
        /\ IF saved.map_view = None
           THEN "map_view" \notin DOMAIN settings_call.returned
           ELSE /\ "map_view" \in DOMAIN settings_call.returned
                /\ settings_call.returned.map_view = saved.map_view

\* a fresh Config took every saved value; the geometry came back with it
C24_Witness ==
    /\ settings_call.op = "load"
    /\ saved # None
    /\ settings_call.before = FreshConfig
    /\ cfg.window_title = "TestWindow"
    /\ cfg.capture_interval_ms = 2000
    /\ cfg.match_confidence_threshold = 80
    /\ cfg.minimap_region # None
    /\ saved.always_on_top
    /\ saved.window_geometry # None
    /\ saved.map_view # None

\* C25: load_settings returns {} and leaves every Config field as it was
\* when the settings file is missing or is not valid JSON; after a
\* reset_settings that removed the file, a load returns {}.
C25_LoadFallsBack ==
    /\ settings_call.op = "load" /\ settings_file.state # "json" =>
           /\ settings_call.raised = "none"
           /\ settings_call.returned = <<>>
           /\ cfg = settings_call.before
    /\ settings_call.op = "reset" => settings_file.state = "missing"


(***************************************************************************)
(* war_api.fetch_faction_control.  A map item is its teamId, "NONE" when   *)
(* it has none; a request either fails (raises inside _get_json) or        *)
(* answers with JSON of the shape the War API documents.                   *)
(***************************************************************************)
\* map items of the hex the model follows closely, and of the other hexes
MaxItems == 3
MaxItemsElsewhere == 1

\* lines 19-56, two of the entries
_API_TO_REGION == [DeadLandsHex |-> "Deadlands", OriginHex |-> "Origin"]

TeamIds == {"COLONIALS", "WARDENS", "CASUALS", "NONE"}

\* how many of the items belong to the team
Owned(items, team) == Cardinality({i \in 1..Len(items) : items[i] = team})

FirstSeen(items) ==
    LET owned == {i \in 1..Len(items) : items[i] # "NONE"}
    IN items[CHOOSE i \in owned : \A j \in owned : i <= j]

\* lines 98-107: teams.most_common(1)[0][0], the team with the largest
\* count, the one counted first among equals
most_common(items) ==
    LET owned == {i \in 1..Len(items) : items[i] # "NONE"}
        top == {i \in owned : \A j \in owned :
                   Owned(items, items[i]) >= Owned(items, items[j])}
    IN items[CHOOSE i \in top : \A j \in top : i <= j]

\* lines 92-113: the value reported for a hex with these map items
Faction(items) ==
    IF items = <<>> THEN "neutral"
    ELSE IF \A i \in 1..Len(items) : items[i] = "NONE" THEN "neutral"
    ELSE IF most_common(items) = "COLONIALS" THEN "colonial"
    ELSE IF most_common(items) = "WARDENS" THEN "warden"
    ELSE "neutral"

OnRegionFailureRaise == "raise"

\* lines 88-90: except Exception: continue
OnRegionFailure == "continue"

RECURSIVE Control(_, _)
\* lines 79-115: the dict after the loop went through the hex names
Control(hex_names, dynamic) ==
    IF hex_names = <<>> THEN <<>>
    ELSE LET n == Len(hex_names)
             hex_name == hex_names[n]
             earlier == Control(SubSeq(hex_names, 1, n - 1), dynamic)
         IN IF hex_name \notin DOMAIN _API_TO_REGION THEN earlier
            ELSE IF ~dynamic[hex_name].ok THEN earlier
            ELSE (_API_TO_REGION[hex_name] :>
                      Faction(dynamic[hex_name].mapItems)) @@ earlier

\* a listed hex with a display name whose request fails
RegionFailure(hex_names, dynamic) ==
    \E i \in 1..Len(hex_names) :
        /\ hex_names[i] \in DOMAIN _API_TO_REGION
        /\ ~dynamic[hex_names[i]].ok

Forgotten == [done |-> FALSE, raised |-> "none", control |-> <<>>]

\* the War API lists one more hex
HexListed ==
    /\ \E h \in HexNames :
         /\ \A i \in 1..Len(war_api.hex_names) : war_api.hex_names[i] # h
         /\ war_api' = [war_api EXCEPT !.hex_names = Append(@, h)]
    /\ war_call' = Forgotten
    /\ UNCHANGED <<scheduler, detector, notifier, view, trail, store,
                   settings>>

\* the map list request starts or stops failing
MapListToggled ==
    /\ war_api' = [war_api EXCEPT !.maps_ok = ~@]
    /\ war_call' = Forgotten
    /\ UNCHANGED <<scheduler, detector, notifier, view, trail, store,
                   settings>>

\* a hex has one more map item (and its request succeeds)
ItemAppears ==
    /\ \E h \in DOMAIN _API_TO_REGION, team \in TeamIds :
         /\ Len(war_api.dynamic[h].mapItems) <
                (IF h = "DeadLandsHex" THEN MaxItems ELSE MaxItemsElsewhere)
         /\ war_api' = [war_api EXCEPT !.dynamic[h] =
                [ok |-> TRUE, mapItems |-> Append(@.mapItems, team)]]
    /\ war_call' = Forgotten
    /\ UNCHANGED <<scheduler, detector, notifier, view, trail, store,
                   settings>>

\* the request for a hex's dynamic data starts failing
RegionFails ==
    /\ \E h \in DOMAIN _API_TO_REGION :
         /\ war_api.dynamic[h].ok
         /\ war_api' = [war_api EXCEPT !.dynamic[h] =
                [ok |-> FALSE, mapItems |-> <<>>]]
    /\ war_call' = Forgotten
    /\ UNCHANGED <<scheduler, detector, notifier, view, trail, store,
                   settings>>

\* fetch_faction_control()
fetch_faction_control ==
    /\ war_call' =
           IF ~war_api.maps_ok
           THEN [done |-> TRUE, raised |-> "none", control |-> <<>>]
           ELSE IF /\ RegionFailure(war_api.hex_names, war_api.dynamic)
                   /\ OnRegionFailure = "raise"
           THEN [done |-> TRUE, raised |-> "Exception", control |-> <<>>]
           ELSE [done |-> TRUE, raised |-> "none",
                 control |-> Control(war_api.hex_names, war_api.dynamic)]
    /\ UNCHANGED war_api
    /\ UNCHANGED <<scheduler, detector, notifier, view, trail, store,
                   settings>>

WarApiNext ==
    \/ HexListed
    \/ MapListToggled
    \/ ItemAppears
    \/ RegionFails
    \/ fetch_faction_control

WarApiSpec == Quiescent /\ [][WarApiNext]_vars

Listed(h) == \E i \in 1..Len(war_api.hex_names) : war_api.hex_names[i] = h

C27_FactionByPlurality ==
    war_call.done /\ war_api.maps_ok =>
        /\ DOMAIN war_call.control \subseteq {"Deadlands", "Origin"}
        /\ \A k \in DOMAIN war_call.control :
               war_call.control[k] \in {"colonial", "warden", "neutral"}
        /\ "Deadlands" \in DOMAIN war_call.control =>
               LET items == war_api.dynamic["DeadLandsHex"].mapItems
                   c == Owned(items, "COLONIALS")
                   w == Owned(items, "WARDENS")
                   o == Owned(items, "CASUALS")
                   first == {i \in 1..Len(items) :
                                /\ items[i] # "NONE"
                                /\ Owned(items, items[i]) >= c
                                /\ Owned(items, items[i]) >= w
                                /\ Owned(items, items[i]) >= o}
                   entry == war_call.control["Deadlands"]
               IN /\ c > w /\ c > o => entry = "colonial"
                  /\ w > c /\ w > o => entry = "warden"
                  /\ o > c /\ o > w => entry = "neutral"
                  /\ c + w + o = 0 => entry = "neutral"
                  /\ \A i \in first : (\A j \in first : i <= j) =>
                         entry = CASE items[i] = "COLONIALS" -> "colonial"
                                   [] items[i] = "WARDENS" -> "warden"
                                   [] OTHER -> "neutral"

\* COLONIALS owns two of three items, the first item is WARDENS'; a hex
\* without a display name is listed too
C27_Witness ==
    /\ war_call.done
    /\ war_api.maps_ok
    /\ Listed("UnknownHex")
    /\ war_api.dynamic["DeadLandsHex"].mapItems =
           <<"WARDENS", "COLONIALS", "COLONIALS">>
    /\ "Deadlands" \in DOMAIN war_call.control
    /\ war_call.control["Deadlands"] = "colonial"


=============================================================================
